---- MODULE Spec2Model ----
(***************************************************************************)
(* The GOG game-store adapter (class GoGLauncher): client discovery,       *)
(* the lazily populated entry cache, reload, the lookups that funnel       *)
(* through the cache, and the per-platform game enumeration.               *)
(*                                                                         *)
(* The repository holds two texts of the class.  They agree on everything  *)
(* but getGameEntriesMacOS: src/unnamed/part_000 runs the per-candidate    *)
(* work under Bluebird.map (all candidates in flight at once, each pushing *)
(* into one shared array when its own stat completes), src/src/index.ts    *)
(* awaits the candidates one after the other in a for loop.  The variable  *)
(* variant selects the text; all other definitions model both.             *)
(*                                                                         *)
(* Values.  A path is a sequence of segments (path.join is concatenation), *)
(* NoPath (the empty sequence) is an unset mClientPath.  A display name    *)
(* and a name pattern are sequences of tokens (a token stands for one or   *)
(* more characters); the pattern tokens ".", "|" and "(" are the regular   *)
(* expression metacharacters.  In a metadata record the empty string or    *)
(* sequence is a missing (falsy) field.                                    *)
(***************************************************************************)
EXTENDS Integers, Sequences, FiniteSets, TLC

\* Bound of the model: allGames() calls counted per epoch (the count saturates here).
MaxCalls == 2

\* Program constants.
STORE_ID == "gog"
GOG_EXEC == "GalaxyClient.exe"
StandardPath == <<"/Applications", "GOG Galaxy.app">>
UserAppsPath == <<"$HOME", "Applications", "GOG Galaxy.app">>
WinClientPath == <<"C:\\GOG Galaxy">>
NoPath == <<>>

Platforms == {"win32", "darwin", "linux"}
Variants == {"map", "loop"}

\* The candidates (game directories, registry subkeys), in listing order, and
\* what their metadata says.  The second display name extends the first.
GameDirs == <<"12345", "67890">>
GameDir(i) == GameDirs[i]
InstallDir(i) == <<"/Games/Test Game 1", "/Games/Test Game 10">>[i]
NameOf(i) == << <<"Test Game 1">>, <<"Test Game 1", "0">> >>[i]
NumDirs == Len(GameDirs)
Cands == 1..NumDirs
AppIds == {GameDir(i) : i \in Cands}

PathJoin(base, segment) == Append(base, segment)

Entry(appid, name, gamePath) ==
  [appid |-> appid, name |-> name, gamePath |-> gamePath, gameStoreId |-> STORE_ID]

(***************************************************************************)
(* What the operating system can answer.                                   *)
(***************************************************************************)
\* fs.readFile + JSON.parse of a candidate's gameinfo file.
ReadFileOutcomes(i) ==
  {"unreadable", "unparsable", "nopath", "full"} \cup (IF i = 1 THEN {"bare"} ELSE {"alias"})

\* The record JSON.parse yields: "full" names everything, "alias" carries the
\* first candidate's gameId, "bare" has only an install directory, "nopath" none.
GameInfo(kind, i) ==
  [gameId |-> IF kind = "bare" THEN "" ELSE IF kind = "alias" THEN GameDir(1) ELSE GameDir(i),
   name |-> IF kind = "bare" THEN <<>> ELSE NameOf(i),
   title |-> <<>>,
   installDirectory |-> IF kind = "nopath" THEN "" ELSE InstallDir(i)]

\* The three values of a registry subkey of the Games key, or a failed read.
RegKeyOutcomes(i) == {"unreadable", "full"} \cup (IF i = 1 THEN {} ELSE {"alias"})
RegValues(kind, i) ==
  [gameID |-> IF kind = "alias" THEN GameDir(1) ELSE GameDir(i),
   path |-> InstallDir(i),
   startMenu |-> NameOf(i)]

(***************************************************************************)
(* Regular expressions: new RegExp('^' + namePattern + '$') and re.test.   *)
(***************************************************************************)
\* The alternatives of a pattern: the token runs between top-level "|".
RECURSIVE SplitAlt(_)
SplitAlt(p) ==
  IF \A j \in 1..Len(p) : p[j] # "|" THEN <<p>>
  ELSE LET k == CHOOSE j \in 1..Len(p) : p[j] = "|" /\ \A h \in 1..(j - 1) : p[h] # "|"
       IN <<SubSeq(p, 1, k - 1)>> \o SplitAlt(SubSeq(p, k + 1, Len(p)))

\* new RegExp throws SyntaxError on an unterminated group.
RegExpValid(p) == \A j \in 1..Len(p) : p[j] # "("

\* One alternative matches name at position k.
MatchAt(alt, name, k) ==
  /\ k + Len(alt) - 1 <= Len(name)
  /\ \A j \in 1..Len(alt) : alt[j] = "." \/ alt[j] = name[k + j - 1]

\* re.test(name) for re = '^' + p + '$': the added "^" belongs to the first
\* alternative and the added "$" to the last.
RegExpTest(p, name) ==
  LET alts == SplitAlt(p)
  IN \E m \in 1..Len(alts) : \E k \in 1..(Len(name) + 1) :
        /\ MatchAt(alts[m], name, k)
        /\ (m = 1 => k = 1)
        /\ (m = Len(alts) => k + Len(alts[m]) - 1 = Len(name))

\* Patterns callers pass: two literal titles, an alternation, an unterminated group.
NamePatterns ==
  {<<"Test Game 1">>, <<"Test Game 1", "0">>, <<"Test Game 1", "|", "Other">>, <<"(">>}


(***************************************************************************)
(* State.                                                                  *)
(***************************************************************************)
VARIABLES
  platform,     \* process.platform
  variant,      \* the text of getGameEntriesMacOS that runs: "map" or "loop"
  probeEnv,     \* what the discovery probe finds on this machine
  logged,       \* what the discovery probe has logged: NoLog or GogNotFound(error)
  probe,        \* "pending" until the constructor's import().then callback has run
  mClientPath,  \* the value mClientPath resolves to, NoPath when the field is unset
  mCache,       \* "undefined", or "cur": the promise held in enums.cur
  enums,        \* the enumerations some holder still refers to: cur (mCache's)
                \* and old (replaced by a reload while it was in flight or while
                \* the observed caller waits on it)
  waiter,       \* the observed caller's outstanding allGames() promise
  out,          \* the outcome of the observed caller's last completed call
  epoch         \* history since construction or the last reloadGames()

vars == <<platform, variant, probeEnv, logged, probe, mClientPath, mCache, enums, waiter, out, epoch>>

\* An enumeration: the promise getGameEntries() returned and the progress of
\* the work behind it.
\*   st    "stat", "readdir", "map" (macOS steps), "import" (Windows), then
\*         "resolved" or "rejected"; "running" for an enumeration in flight
\*         whose promise nobody holds any more (its steps are not followed)
\*   top   how the data directory / Games key answered; "skipped" when the
\*         Windows enumeration did not touch the registry
\*   n     the number of listed candidates
\*   cand  per candidate: "-" while its metadata read is outstanding; the kind
\*         of the parsed record while fs.stat of its install directory is
\*         outstanding; then what the operating system said of it: "valid"
\*         (metadata read and parsed, install directory named and on disk;
\*         on Windows: all three values read) or "invalid"
\*   gameEntries  the array the entries are pushed into, the promise's value
\*   stale a reloadGames() call was made after this enumeration started
NoEnum ==
  [st |-> "none", top |-> "-", n |-> 0, cand |-> [i \in Cands |-> "-"],
   gameEntries |-> <<>>, stale |-> FALSE]
NewEnum(st, top) == [NoEnum EXCEPT !.st = st, !.top = top]

NoWaiter == [p |-> "none", early |-> FALSE, fresh |-> FALSE]
Resolved(v) == [tag |-> "resolved", val |-> v]
Rejected(kind, v) == [tag |-> kind, val |-> v]
\* A completed call of the observed caller: the operation and its argument,
\* whether it was issued before the probe settled (early) and after the last
\* reloadGames() (fresh), the enumeration its promise belonged to (src), the
\* entries and the client path its callback read (snap, path), and what the
\* caller got (res); whether the call logged a warning (warned) and the calls
\* it made to api.runExecutable (run).
NoSrc == [stale |-> FALSE, top |-> "-", unprocessed |-> 0]
NoOut == [op |-> "none", arg |-> "-", early |-> FALSE, fresh |-> FALSE, src |-> NoSrc,
          snap |-> <<>>, path |-> NoPath, res |-> Resolved("-"),
          warned |-> FALSE, run |-> <<>>]
Min(a, b) == IF a < b THEN a ELSE b

(***************************************************************************)
(* Discovery probe (the constructor).                                      *)
(***************************************************************************)
ProbeEnvs(plat) ==
  IF plat = "win32" THEN {"found", "missing", "noapi"}
  ELSE IF plat = "darwin" THEN {"std", "user", "both", "none", "throws"}
  ELSE {"unsupported"}

\* win32: import('winapi-bindings') rejects ("noapi") or RegGetValue throws
\* ("missing"): the catch handler leaves the field undefined.
ProbeWindows(env) == IF env = "found" THEN WinClientPath ELSE NoPath

\* darwin: existsSync(standardPath), then existsSync(userAppsPath); a throw is caught.
ProbeMacOS(env) ==
  IF env \in {"std", "both"} THEN StandardPath
  ELSE IF env = "user" THEN UserAppsPath
  ELSE NoPath

\* log('info', 'gog not found', { error })
NoLog == <<>>
GogNotFound(error) == <<"info", "gog not found", error>>

\* Mutant: the darwin branch without its try/catch: a throwing existsSync
\* leaves the constructor.
Constructor_NoCatch(plat, env) ==
  IF plat = "win32"
  THEN [probe |-> "pending", mClientPath |-> NoPath, logged |-> NoLog]
  ELSE IF plat = "darwin"
  THEN IF env = "throws"
       THEN [probe |-> "threw", mClientPath |-> NoPath, logged |-> NoLog]
       ELSE [probe |-> "settled", mClientPath |-> ProbeMacOS(env),
             logged |-> IF env = "none" THEN GogNotFound("macOS app not installed")
                        ELSE NoLog]
  ELSE [probe |-> "settled", mClientPath |-> NoPath,
        logged |-> GogNotFound("unsupported platform")]

\* new GoGLauncher(): what the constructor has done when it returns (probe
\* "pending": the win32 import is in flight; "settled": the field is final;
\* "threw": the constructor raised).
Constructor(plat, env) ==
  IF plat = "win32"
  THEN [probe |-> "pending", mClientPath |-> NoPath, logged |-> NoLog]
  ELSE IF plat = "darwin"
  THEN [probe |-> "settled", mClientPath |-> ProbeMacOS(env),
        logged |-> IF env = "none" THEN GogNotFound("macOS app not installed")
                   ELSE IF env = "throws" THEN GogNotFound("err.message")
                   ELSE NoLog]
  ELSE [probe |-> "settled", mClientPath |-> NoPath,
        logged |-> GogNotFound("unsupported platform")]

\* The state the constructor leaves: on win32 the probe is still in flight.
Init ==
  /\ platform \in Platforms
  /\ variant \in (IF platform = "darwin" THEN Variants ELSE {"map"})
  /\ probeEnv \in ProbeEnvs(platform)
  /\ probe = Constructor(platform, probeEnv).probe
  /\ mClientPath = Constructor(platform, probeEnv).mClientPath
  /\ logged = Constructor(platform, probeEnv).logged
  /\ mCache = "undefined"
  /\ enums = [cur |-> NoEnum, old |-> NoEnum]
  /\ waiter = NoWaiter
  /\ out = NoOut
  /\ epoch = [calls |-> 0, starts |-> 0, byReload |-> FALSE, same |-> TRUE]

\* Mutant: the callback may run again later and then clears the field.
ProbeSettle_Again ==
  /\ probe' = "settled"
  /\ mClientPath' = IF probe = "pending" THEN ProbeWindows(probeEnv) ELSE NoPath
  /\ UNCHANGED <<platform, variant, probeEnv, logged, mCache, enums, waiter, out, epoch>>

\* The callback of import('winapi-bindings').then(...).catch(...) runs.
ProbeSettle ==
  /\ probe = "pending"
  /\ probe' = "settled"
  /\ mClientPath' = ProbeWindows(probeEnv)
  /\ logged' = IF ProbeWindows(probeEnv) = NoPath THEN GogNotFound("err.message") ELSE logged
  /\ UNCHANGED <<platform, variant, probeEnv, mCache, enums, waiter, out, epoch>>

(***************************************************************************)
(* getGameEntries: the promise a new enumeration starts with.              *)
(***************************************************************************)
\* Mutant: the Windows enumeration without its client-path short circuit.
GetGameEntriesWindows_NoShortCircuit == NewEnum("import", "pending")

\* (!!this.mClientPath) ? import(...).then(...) : Promise.resolve([])
GetGameEntriesWindows ==
  IF mClientPath # NoPath THEN NewEnum("import", "pending") ELSE NewEnum("resolved", "skipped")

GetGameEntriesMacOS == NewEnum("stat", "pending")

GetGameEntries ==
  IF platform = "win32" THEN GetGameEntriesWindows
  ELSE IF platform = "darwin" THEN GetGameEntriesMacOS
  ELSE NewEnum("resolved", "unsupported")

(***************************************************************************)
(* Entry cache: allGames and reloadGames.                                  *)
(***************************************************************************)
\* Mutant: an empty snapshot counts as no snapshot (if (!cache || !cache.length)).
NeedsEnumeration_EmptyIsFalsy ==
  \/ mCache = "undefined"
  \/ enums.cur.st = "resolved" /\ enums.cur.gameEntries = <<>>

\* if (!this.mCache): a promise is truthy whatever it resolves to.
NeedsEnumeration == mCache = "undefined"

Stale(e) == IF e.st = "none" THEN e ELSE [e EXCEPT !.stale = TRUE]

\* The work behind the promise is still going on.
InFlight(e) == e.st \notin {"none", "resolved", "rejected"}

\* A promise that neither the cache nor the observed caller holds: its work,
\* if still in flight, goes on unobserved; its result reaches nobody.
Abandon(e) ==
  IF InFlight(e) THEN [NoEnum EXCEPT !.st = "running", !.stale = e.stale] ELSE NoEnum

\* allGames(), called directly or as the first statement of findByName,
\* findByAppId and getExecInfo.  The observed caller now waits on the promise
\* it returned; a call it made earlier is no longer followed.
AllGames ==
  LET need == NeedsEnumeration
  IN /\ mCache' = "cur"
     /\ enums' = [cur |-> IF need THEN GetGameEntries ELSE enums.cur,
                  old |-> Abandon(enums.old)]
     /\ waiter' = [p |-> "cur", early |-> (probe = "pending"), fresh |-> TRUE]
     /\ out' = NoOut
     /\ epoch' = [epoch EXCEPT
                    !.calls = Min(@ + 1, MaxCalls),
                    !.starts = IF need THEN Min(@ + 1, MaxCalls) ELSE @,
                    !.same = @ /\ (epoch.calls = 0 \/ ~need)]
     /\ UNCHANGED <<platform, variant, probeEnv, logged, probe, mClientPath>>

\* Mutant: reloadGames() enumerates only when there is no snapshot yet.
ReloadGames_KeepsCache ==
  /\ mCache' = "cur"
  /\ enums' = [cur |-> IF mCache = "undefined" THEN GetGameEntries ELSE Stale(enums.cur),
               old |-> IF waiter.p = "old" THEN Stale(enums.old) ELSE NoEnum]
  /\ waiter' = IF waiter.p = "none" THEN waiter ELSE [waiter EXCEPT !.fresh = FALSE]
  /\ out' = [NoOut EXCEPT !.op = "reloadGames", !.res = Resolved("undefined")]
  /\ epoch' = [calls |-> 0, starts |-> 0, byReload |-> TRUE, same |-> TRUE]
  /\ UNCHANGED <<platform, variant, probeEnv, logged, probe, mClientPath>>

\* reloadGames(): this.mCache = this.getGameEntries(); resolve().  A promise
\* the observed caller still waits on stays alive as enums.old.
ReloadGames ==
  /\ mCache' = "cur"
  /\ enums' = [cur |-> GetGameEntries,
               old |-> IF waiter.p # "none" THEN Stale(enums[waiter.p])
                       ELSE IF InFlight(enums.cur) THEN Abandon(Stale(enums.cur))
                       ELSE enums.old]
  /\ waiter' = IF waiter.p = "none" THEN waiter
               ELSE [waiter EXCEPT !.p = "old", !.fresh = FALSE]
  /\ out' = [NoOut EXCEPT !.op = "reloadGames", !.res = Resolved("undefined")]
  /\ epoch' = [calls |-> 0, starts |-> 0, byReload |-> TRUE, same |-> TRUE]
  /\ UNCHANGED <<platform, variant, probeEnv, logged, probe, mClientPath>>


\* Mutant: an enumeration writes its result into the cache when it completes.
AbandonedSettles_WritesCache ==
  /\ enums.old.st = "running"
  /\ enums' = [cur |-> [enums.old EXCEPT !.st = "resolved"], old |-> NoEnum]
  /\ mCache' = "cur"
  /\ UNCHANGED <<platform, variant, probeEnv, logged, probe, mClientPath, waiter, out, epoch>>

\* An enumeration that a reloadGames() replaced completes: its promise, which
\* the cache no longer holds, settles, and nothing else changes.
AbandonedSettles ==
  /\ enums.old.st = "running"
  /\ enums' = [enums EXCEPT !.old = NoEnum]
  /\ mCache' = mCache
  /\ UNCHANGED <<platform, variant, probeEnv, logged, probe, mClientPath, waiter, out, epoch>>

(***************************************************************************)
(* getGameEntriesMacOS: one step per completed filesystem operation.       *)
(***************************************************************************)
\* appid = gameInfo.gameId || gameId; name = gameInfo.name || gameInfo.title
\* || `GOG Game ${appid}`; gamePath = gameInfo.installDirectory.
MacEntry(kind, i) ==
  LET gameInfo == GameInfo(kind, i)
      appid == IF gameInfo.gameId # "" THEN gameInfo.gameId ELSE GameDir(i)
      name == IF gameInfo.name # <<>> THEN gameInfo.name
              ELSE IF gameInfo.title # <<>> THEN gameInfo.title
              ELSE <<"GOG Game ", appid>>
  IN Entry(appid, name, gameInfo.installDirectory)

\* The metadata file can be read, parses and names an install directory.
ValidMeta(kind) == kind \in {"full", "alias", "bare"}

\* readFile resolved, JSON.parse did not throw, and if (gamePath) passed:
\* fs.stat(gamePath) is issued.  Otherwise the candidate is logged and dropped.
IssuesStat(kind, i) ==
  /\ kind \notin {"unreadable", "unparsable"}
  /\ MacEntry(kind, i).gamePath # ""

AwaitsStat(e, i) == e.cand[i] \notin {"-", "valid", "invalid"}

\* The candidate's mapper promise (its loop iteration) has finished.
CandDone(e, i) == e.cand[i] \in {"valid", "invalid"}

\* Mutant: the promise resolves as soon as one candidate has finished.
Settle_AfterFirst(e) ==
  IF e.n = 0 \/ \E i \in 1..e.n : CandDone(e, i) THEN [e EXCEPT !.st = "resolved"] ELSE e

\* .then(() => gameEntries) / return gameEntries: the promise resolves when
\* the last candidate finishes, with the array as it then is.
Settle(e) ==
  IF \A i \in 1..e.n : CandDone(e, i) THEN [e EXCEPT !.st = "resolved"] ELSE e

\* Bluebird.map starts every candidate's readFile at once; the for loop
\* starts candidate i when the candidates before it have finished.
MayStart(e, i) == variant = "loop" => \A j \in 1..(i - 1) : CandDone(e, j)

\* Mutant: the entry is pushed whatever fs.stat answered.
PushIfExists_Always(gameEntries, entry, exists) == Append(gameEntries, entry)

\* .then(() => { gameEntries.push(...) }) / .catch(() => log(...))
PushIfExists(gameEntries, entry, exists) ==
  IF exists THEN Append(gameEntries, entry) ELSE gameEntries

\* fs.stat(gogDataPath) completes.
MacStatData(k, ok) ==
  /\ enums[k].st = "stat"
  /\ enums' = [enums EXCEPT ![k] =
                 IF ok THEN [@ EXCEPT !.st = "readdir"]
                 ELSE [@ EXCEPT !.st = "resolved", !.top = "nodata"]]
  /\ UNCHANGED <<platform, variant, probeEnv, logged, probe, mClientPath, mCache, waiter, out, epoch>>

\* fs.readdir(gamesPath) completes: it fails, or lists the first n candidates.
MacReaddir(k, ok, n) ==
  /\ enums[k].st = "readdir"
  /\ enums' = [enums EXCEPT ![k] =
                 IF ~ok THEN [@ EXCEPT !.st = "resolved", !.top = "nogames"]
                 ELSE Settle([@ EXCEPT !.st = "map", !.top = "ok", !.n = n])]
  /\ UNCHANGED <<platform, variant, probeEnv, logged, probe, mClientPath, mCache, waiter, out, epoch>>

\* fs.readFile(gameInfoPath) of candidate i completes and the text is parsed.
MacReadFile(k, i, kind) ==
  /\ enums[k].st = "map"
  /\ i \in 1..enums[k].n
  /\ enums[k].cand[i] = "-"
  /\ MayStart(enums[k], i)
  /\ enums' = [enums EXCEPT ![k] =
                 Settle([@ EXCEPT !.cand[i] = IF IssuesStat(kind, i) THEN kind ELSE "invalid"])]
  /\ UNCHANGED <<platform, variant, probeEnv, logged, probe, mClientPath, mCache, waiter, out, epoch>>

\* fs.stat(gamePath) of candidate i completes.
MacStatGame(k, i, exists) ==
  /\ enums[k].st = "map"
  /\ i \in 1..enums[k].n
  /\ AwaitsStat(enums[k], i)
  /\ enums' = [enums EXCEPT ![k] =
                 Settle([@ EXCEPT
                   !.cand[i] = IF exists /\ ValidMeta(enums[k].cand[i])
                               THEN "valid" ELSE "invalid",
                   !.gameEntries = PushIfExists(@, MacEntry(enums[k].cand[i], i), exists)])]
  /\ UNCHANGED <<platform, variant, probeEnv, logged, probe, mClientPath, mCache, waiter, out, epoch>>

(***************************************************************************)
(* getGameEntriesWindows: the registry is read in one synchronous callback *)
(***************************************************************************)
WinEntry(kind, i) ==
  LET v == RegValues(kind, i) IN Entry(v.gameID, v.startMenu, v.path)

\* Mutant: no try/catch per subkey; the first failed read ends the enumeration.
RECURSIVE WinEntries_StopAtFailure(_, _)
WinEntries_StopAtFailure(n, kinds) ==
  IF n = 0 THEN <<>>
  ELSE IF \E i \in 1..n : kinds[i] = "unreadable" THEN WinEntries_StopAtFailure(n - 1, kinds)
  ELSE Append(WinEntries_StopAtFailure(n - 1, kinds), WinEntry(kinds[n], n))

\* keys.map(key => { try {...} catch { return undefined } }).filter(e => !!e)
RECURSIVE WinEntries(_, _)
WinEntries(n, kinds) ==
  IF n = 0 THEN <<>>
  ELSE IF kinds[n] = "unreadable" THEN WinEntries(n - 1, kinds)
  ELSE Append(WinEntries(n - 1, kinds), WinEntry(kinds[n], n))

\* try { WithRegOpen(...) } catch (err) { ENOENT ? resolve([]) : reject(err) }
WinRegOpen(top, n, kinds) ==
  IF top = "ok" THEN Resolved(WinEntries(n, kinds))
  ELSE IF top = "ENOENT" THEN Resolved(<<>>)
  ELSE Rejected("Error", top)

\* Mutant: the enumeration promise without its catch handler.
WinCatch_Missing(r) == r

\* .catch(() => Promise.resolve([]))
WinCatch(r) == IF r.tag = "resolved" THEN r ELSE Resolved(<<>>)

WinResult(top, n, kinds) == WinCatch(WinRegOpen(top, n, kinds))

\* import('winapi-bindings') resolves and the callback reads the Games key.
WinEnumerate(k, top, n, kinds) ==
  /\ enums[k].st = "import"
  /\ enums' = [enums EXCEPT ![k] =
                 [@ EXCEPT !.st = IF WinResult(top, n, kinds).tag = "resolved"
                                  THEN "resolved" ELSE "rejected",
                           !.top = top,
                           !.n = IF top = "ok" THEN n ELSE 0,
                           !.cand = IF top = "ok"
                                    THEN [i \in Cands |->
                                            IF i > n THEN "-"
                                            ELSE IF kinds[i] = "unreadable" THEN "invalid"
                                            ELSE "valid"]
                                    ELSE @,
                           !.gameEntries = IF WinResult(top, n, kinds).tag = "resolved"
                                           THEN WinResult(top, n, kinds).val ELSE <<>>]]
  /\ UNCHANGED <<platform, variant, probeEnv, logged, probe, mClientPath, mCache, waiter, out, epoch>>


(***************************************************************************)
(* Lookups.  Each is this.allGames().then(callback): the call is the       *)
(* action AllGames, the callback runs once the promise has resolved and    *)
(* reads the lookup's argument and this.mClientPath only then.             *)
(***************************************************************************)
\* entries.find(test): the index of the first entry that passes, 0 for undefined.
FindIndex(entries, passes) ==
  LET hits == {j \in 1..Len(entries) : passes[j]}
  IN IF hits = {} THEN 0 ELSE CHOOSE j \in hits : \A h \in hits : j <= h

\* appId.join(', ')
RECURSIVE JoinComma(_)
JoinComma(ids) ==
  IF Len(ids) <= 1 THEN ids
  ELSE <<ids[1], ", ">> \o JoinComma(Tail(ids))

GameEntryNotFound(query) == Rejected("GameEntryNotFound", [query |-> query, store |-> STORE_ID])

FindByNameResult(entries, namePattern) ==
  LET k == FindIndex(entries,
                     [j \in 1..Len(entries) |-> RegExpTest(namePattern, entries[j].name)])
  IN IF k = 0 THEN GameEntryNotFound(namePattern) ELSE Resolved(entries[k])

\* An id argument is a scalar (isArray FALSE, ids of length 1) or an array.
IdArgs ==
  {[isArray |-> FALSE, ids |-> <<a>>] : a \in AppIds}
    \cup {[isArray |-> TRUE, ids |-> <<GameDir(2), GameDir(1)>>]}

\* Mutant: the ids are tried in the order given, each against the whole snapshot.
FindByAppIdResult_IdOrder(entries, appId) ==
  LET k == FindIndex(appId.ids, [h \in 1..Len(appId.ids) |->
                       \E j \in 1..Len(entries) : entries[j].appid = appId.ids[h]])
  IN IF k = 0 THEN GameEntryNotFound(JoinComma(appId.ids))
     ELSE Resolved(entries[FindIndex(entries, [j \in 1..Len(entries) |->
                                       entries[j].appid = appId.ids[k]])])

FindByAppIdResult(entries, appId) ==
  LET k == FindIndex(entries, [j \in 1..Len(entries) |->
                       IF appId.isArray
                       THEN \E h \in 1..Len(appId.ids) : appId.ids[h] = entries[j].appid
                       ELSE appId.ids[1] = entries[j].appid])
  IN IF k = 0 THEN GameEntryNotFound(JoinComma(appId.ids)) ELSE Resolved(entries[k])

\* Mutant: one argument order (the Windows one) on every platform.
ExecPlan_OneOrder(basePath, gameEntry) ==
  [execPath |-> IF platform = "darwin" THEN basePath ELSE PathJoin(basePath, GOG_EXEC),
   arguments |-> << <<"/command=runGame">>, <<"/gameId=", gameEntry.appid>>,
                    <<"path=\"", gameEntry.gamePath, "\"">> >>]

ExecPlan(basePath, gameEntry) ==
  IF platform = "darwin"
  THEN [execPath |-> basePath,
        arguments |-> << <<"/gameId=", gameEntry.appid>>, <<"/command=runGame">>,
                         <<"path=\"", gameEntry.gamePath, "\"">> >>]
  ELSE [execPath |-> PathJoin(basePath, GOG_EXEC),
        arguments |-> << <<"/command=runGame">>, <<"/gameId=", gameEntry.appid>>,
                         <<"path=\"", gameEntry.gamePath, "\"">> >>]

\* Mutant: the client path is checked before the entry is looked up.
GetExecInfoResult_PathFirst(entries, appId) ==
  LET k == FindIndex(entries, [j \in 1..Len(entries) |-> entries[j].appid = appId])
  IN IF mClientPath = NoPath THEN Rejected("NotInstalled", "GOG Galaxy not installed")
     ELSE IF k = 0 THEN GameEntryNotFound(<<appId>>)
     ELSE Resolved(ExecPlan(mClientPath, entries[k]))

\* Mutant: this.mClientPath.then(...) without the check that the field is set.
GetExecInfoResult_NoCheck(entries, appId) ==
  LET k == FindIndex(entries, [j \in 1..Len(entries) |-> entries[j].appid = appId])
  IN IF k = 0 THEN GameEntryNotFound(<<appId>>)
     ELSE IF mClientPath = NoPath
     THEN Rejected("TypeError", "Cannot read properties of undefined (reading 'then')")
     ELSE Resolved(ExecPlan(mClientPath, entries[k]))

GetExecInfoResult(entries, appId) ==
  LET k == FindIndex(entries, [j \in 1..Len(entries) |-> entries[j].appid = appId])
  IN IF k = 0 THEN GameEntryNotFound(<<appId>>)
     ELSE IF mClientPath = NoPath THEN Rejected("NotInstalled", "GOG Galaxy not installed")
     ELSE Resolved(ExecPlan(mClientPath, entries[k]))

GetGameStorePathResult ==
  IF mClientPath # NoPath
  THEN Resolved(IF platform = "darwin" THEN mClientPath
                ELSE PathJoin(mClientPath, "GalaxyClient.exe"))
  ELSE Resolved(NoPath)

\* The listed candidates of an enumeration whose work has not finished.
Unprocessed(e) == Cardinality({i \in 1..e.n : ~CandDone(e, i)})

\* The value of the promise the observed caller waits on.
Snapshot == IF waiter.p = "none" THEN <<>> ELSE enums[waiter.p].gameEntries

\* The promise of the observed caller settles: its callback runs and yields
\* res, or the promise's rejection passes through to the caller.  run lists
\* the calls the callback made to api.runExecutable.
DeliverWith(op, arg, res, run) ==
  /\ waiter.p # "none"
  /\ enums[waiter.p].st \in {"resolved", "rejected"}
  /\ out' = [NoOut EXCEPT
               !.op = op, !.arg = arg, !.early = waiter.early, !.fresh = waiter.fresh,
               !.src = [stale |-> enums[waiter.p].stale, top |-> enums[waiter.p].top,
                        unprocessed |-> Unprocessed(enums[waiter.p])],
               !.snap = Snapshot, !.path = mClientPath,
               !.res = IF enums[waiter.p].st = "rejected"
                       THEN Rejected("Error", enums[waiter.p].top) ELSE res,
               !.run = IF enums[waiter.p].st = "rejected" THEN <<>> ELSE run]
  /\ waiter' = NoWaiter
  /\ enums' = [enums EXCEPT !.old = IF waiter.p = "old" THEN NoEnum ELSE @]
  /\ UNCHANGED <<platform, variant, probeEnv, logged, probe, mClientPath, mCache, epoch>>

Deliver(op, arg, res) == DeliverWith(op, arg, res, <<>>)

\* A direct allGames() caller receives the entries.
AllGamesThen == Deliver("allGames", "-", Resolved(Snapshot))

\* findByName: new RegExp throws before allGames() is called; otherwise the
\* callback searches the entries.
FindByName(namePattern) ==
  \/ /\ ~RegExpValid(namePattern)
     /\ waiter.p = "none"
     /\ out' = [NoOut EXCEPT !.op = "findByName", !.arg = namePattern,
                             !.early = (probe = "pending"),
                             !.res = Rejected("SyntaxError", namePattern)]
     /\ UNCHANGED <<platform, variant, probeEnv, logged, probe, mClientPath, mCache, enums,
                    waiter, epoch>>
  \/ /\ RegExpValid(namePattern)
     /\ Deliver("findByName", namePattern, FindByNameResult(Snapshot, namePattern))

FindByAppId(appId) == Deliver("findByAppId", appId, FindByAppIdResult(Snapshot, appId))

GetExecInfo(appId) == Deliver("getExecInfo", appId, GetExecInfoResult(Snapshot, appId))

\* Mutant: the executable's own path serves as working directory.
PathDirname_Self(p) == p

\* path.dirname
PathDirname(p) == SubSeq(p, 1, Len(p) - 1)

\* What happens once getExecInfo has resolved: the caller passed no api
\* ("noapi": api.runExecutable is a TypeError), or runExecutable is called and
\* its promise resolves ("ok") or rejects ("fails").
RunOutcomes == {"noapi", "ok", "fails"}

\* getExecInfo(appInfo).then(execInfo => api.runExecutable(execPath, arguments,
\*   { cwd: path.dirname(execPath), suggestDeploy: true, shell: true }))
LaunchGameResult(entries, appInfo, outcome) ==
  LET execInfo == GetExecInfoResult(entries, appInfo)
  IN IF execInfo.tag # "resolved" THEN [res |-> execInfo, run |-> <<>>]
     ELSE IF outcome = "noapi"
     THEN [res |-> Rejected("TypeError", "Cannot read properties of undefined"),
           run |-> <<>>]
     ELSE [res |-> IF outcome = "ok" THEN Resolved("undefined")
                   ELSE Rejected("Error", "runExecutable"),
           run |-> << [execPath |-> execInfo.val.execPath,
                       arguments |-> execInfo.val.arguments,
                       cwd |-> PathDirname(execInfo.val.execPath),
                       suggestDeploy |-> TRUE, shell |-> TRUE] >>]

LaunchGame(appInfo, outcome) ==
  DeliverWith("launchGame", [appId |-> appInfo, outcome |-> outcome],
              LaunchGameResult(Snapshot, appInfo, outcome).res,
              LaunchGameResult(Snapshot, appInfo, outcome).run)

\* getGameStorePath reads this.mClientPath when called; it does not touch the cache.
GetGameStorePath ==
  /\ waiter.p = "none"
  /\ out' = [NoOut EXCEPT !.op = "getGameStorePath", !.early = (probe = "pending"),
                          !.path = mClientPath, !.res = GetGameStorePathResult]
  /\ UNCHANGED <<platform, variant, probeEnv, logged, probe, mClientPath, mCache, enums,
                 waiter, epoch>>

(***************************************************************************)
(* identifyGame.                                                           *)
(***************************************************************************)
\* fileExists: fs.stat(filePath).then(() => true).catch(() => false)
FileExists(statOk) == statOk

\* What the caller's fallback does: it answers true or false, or its promise rejects.
FallbackOutcomes == {"true", "false", "rejects"}

\* Mutant: on disagreement the marker-file check decides.
IdentifyGameResult_CustomWins(custom, fallback) ==
  IF fallback = "rejects" THEN [res |-> Rejected("Error", "fallback"), warned |-> FALSE]
  ELSE [res |-> Resolved(custom), warned |-> custom # (fallback = "true")]

\* Bluebird.all([fileExists(gog.ico), fallback(gamePath)]).then(([custom, fallback]) =>
\*   { if (custom !== fallback) log('warn', ...); return custom || fallback; })
IdentifyGameResult(custom, fallback) ==
  IF fallback = "rejects" THEN [res |-> Rejected("Error", "fallback"), warned |-> FALSE]
  ELSE [res |-> Resolved(custom \/ (fallback = "true")),
        warned |-> custom # (fallback = "true")]

\* identifyGame(gamePath, fallback): it reads neither the cache nor the client path.
IdentifyGame(statOk, fallback) ==
  /\ waiter.p = "none"
  /\ out' = [NoOut EXCEPT
               !.op = "identifyGame",
               !.arg = [custom |-> FileExists(statOk), fallback |-> fallback],
               !.early = (probe = "pending"),
               !.res = IdentifyGameResult(FileExists(statOk), fallback).res,
               !.warned = IdentifyGameResult(FileExists(statOk), fallback).warned]
  /\ UNCHANGED <<platform, variant, probeEnv, logged, probe, mClientPath, mCache, enums,
                 waiter, epoch>>

(***************************************************************************)
(* findMacOSGOGPath.                                                       *)
(***************************************************************************)
\* What fs.stat says of a path: a directory, something else, or it fails.
StatOutcomes == {"dir", "file", "missing"}

\* Mutant: the path under the user's home directory is tried first.
FindMacOSGOGPathResult_UserFirst(std, user) ==
  IF user = "dir" THEN Resolved(UserAppsPath)
  ELSE IF std = "dir" THEN Resolved(StandardPath)
  ELSE Rejected("Error", "GOG Galaxy not found on macOS")

\* fs.stat(standardPath).then(stat => stat.isDirectory() ? standardPath : reject)
\*   .catch(() => fs.stat(userAppsPath).then(likewise))
\*   .catch(() => reject(new Error('GOG Galaxy not found on macOS')))
FindMacOSGOGPathResult(std, user) ==
  IF std = "dir" THEN Resolved(StandardPath)
  ELSE IF user = "dir" THEN Resolved(UserAppsPath)
  ELSE Rejected("Error", "GOG Galaxy not found on macOS")

\* findMacOSGOGPath(): it reads the filesystem only and assigns nothing.
FindMacOSGOGPath(std, user) ==
  /\ waiter.p = "none"
  /\ out' = [NoOut EXCEPT !.op = "findMacOSGOGPath",
                          !.arg = [std |-> std, user |-> user],
                          !.early = (probe = "pending"),
                          !.res = FindMacOSGOGPathResult(std, user)]
  /\ UNCHANGED <<platform, variant, probeEnv, logged, probe, mClientPath, mCache, enums,
                 waiter, epoch>>

(***************************************************************************)
(* The specification.                                                      *)
(***************************************************************************)
Slots == {"cur", "old"}

Next ==
  \/ ProbeSettle
  \/ AllGames
  \/ ReloadGames
  \/ AbandonedSettles
  \/ AllGamesThen
  \/ GetGameStorePath
  \/ \E statOk \in BOOLEAN, fallback \in FallbackOutcomes : IdentifyGame(statOk, fallback)
  \/ \E std \in StatOutcomes, user \in StatOutcomes : FindMacOSGOGPath(std, user)
  \/ \E namePattern \in NamePatterns : FindByName(namePattern)
  \/ \E appId \in IdArgs : FindByAppId(appId)
  \/ \E appId \in AppIds : GetExecInfo(appId)
  \/ \E appInfo \in AppIds, outcome \in RunOutcomes : LaunchGame(appInfo, outcome)
  \/ \E k \in Slots, ok \in BOOLEAN : MacStatData(k, ok)
  \/ \E k \in Slots, ok \in BOOLEAN, n \in 0..NumDirs : MacReaddir(k, ok, n)
  \/ \E k \in Slots, i \in Cands : \E kind \in ReadFileOutcomes(i) : MacReadFile(k, i, kind)
  \/ \E k \in Slots, i \in Cands, exists \in BOOLEAN : MacStatGame(k, i, exists)
  \/ \E k \in Slots, top \in {"ok", "ENOENT", "EFAIL"}, n \in 0..NumDirs :
       \E kinds \in [Cands -> {"unreadable", "full", "alias"}] :
         /\ \A i \in Cands : i <= n => kinds[i] \in RegKeyOutcomes(i)
         /\ \A i \in Cands : i > n => kinds[i] = "full"
         /\ WinEnumerate(k, top, n, kinds)

Spec == Init /\ [][Next]_vars


(***************************************************************************)
(* Properties.                                                             *)
(***************************************************************************)
Lookups == {"findByName", "findByAppId", "getExecInfo"}
Funnelled == {"allGames", "launchGame"} \cup Lookups
HasAppId(entries, appId) == \E j \in 1..Len(entries) : entries[j].appid = appId
ValidCands(e) == {i \in 1..e.n : e.cand[i] = "valid"}

\* C1: cache population is at-most-once.  Within one epoch (since construction,
\* or since the last reloadGames()) the allGames() calls start exactly one
\* enumeration when the epoch began with construction and none when it began
\* with a reload (which started it); every call returns the promise the cache
\* holds, and the value a caller received is the value of that promise, also
\* when it is the empty sequence.
C1_PopulationAtMostOnce ==
  /\ epoch.same
  /\ epoch.calls >= 1 => epoch.starts = (IF epoch.byReload THEN 0 ELSE 1)
  /\ (waiter.p # "none" /\ waiter.fresh) => (waiter.p = "cur" /\ mCache = "cur")
  /\ (out.op = "allGames" /\ out.fresh) =>
        /\ enums.cur.st = "resolved"
        /\ out.res = Resolved(enums.cur.gameEntries)

\* C1 witness: a second allGames() call of the first epoch has received the
\* memoized empty snapshot of a macOS enumeration that was run once.
C1_Witness ==
  /\ platform = "darwin"
  /\ epoch.calls >= 2 /\ ~epoch.byReload /\ epoch.starts = 1
  /\ out.op = "allGames" /\ out.res = Resolved(<<>>)

\* C2 (the claim as stated): on win32 a call issued before the probe settled
\* yields what the same call yields after the probe settled: getGameStorePath
\* reports the path the registry holds, and when the registry holds a client
\* path the enumeration behind a lookup reads the registry.
C2_LookupsWaitForProbe ==
  (platform = "win32" /\ out.early) =>
    /\ out.op = "getGameStorePath" =>
         out.res = Resolved(IF ProbeWindows(probeEnv) # NoPath
                            THEN PathJoin(ProbeWindows(probeEnv), GOG_EXEC) ELSE NoPath)
    /\ (out.op \in Funnelled /\ ProbeWindows(probeEnv) # NoPath) => out.src.top # "skipped"

\* C3: reloadGames() discards the snapshot.  After a reload the cache holds a
\* promise of an enumeration started by the latest reload; a caller that
\* called allGames() after the latest reload waits on, and receives the value
\* of, such an enumeration; reloadGames() itself resolves with undefined.
C3_ReloadDiscards ==
  /\ epoch.byReload => (mCache = "cur" /\ enums.cur.st # "none" /\ ~enums.cur.stale)
  /\ (waiter.p # "none" /\ waiter.fresh) => ~enums[waiter.p].stale
  /\ (out.op \in Funnelled /\ out.fresh) => ~out.src.stale
  /\ out.op = "reloadGames" => out.res = Resolved("undefined")

\* C3 witness: after a reload, an allGames() caller received a non-empty
\* snapshot of the enumeration the reload started.
C3_Witness ==
  /\ epoch.byReload
  /\ out.op = "allGames" /\ out.fresh /\ ~out.src.stale
  /\ out.res.tag = "resolved" /\ Len(out.snap) > 0

\* C4 (the claim as stated): allGames and getGameStorePath never fail;
\* findByName, findByAppId and getExecInfo fail only with EntryNotFound or
\* NotInstalled.
C4_OnlyDocumentedFailures ==
  /\ out.op \in {"allGames", "getGameStorePath"} => out.res.tag = "resolved"
  /\ out.op \in Lookups => out.res.tag \in {"resolved", "GameEntryNotFound", "NotInstalled"}

\* C4 (amended): as stated, except that findByName throws the SyntaxError of
\* new RegExp, and only that, exactly when its pattern is no valid regular
\* expression.  Every failure of the operating system ends as the empty
\* sequence (no data directory, no games directory, no Games key, any other
\* registry failure) or as an absent path (a failed probe).
C4_FailuresAbsorbed ==
  /\ out.op \in {"allGames", "getGameStorePath"} => out.res.tag = "resolved"
  /\ out.op \in {"findByAppId", "getExecInfo"} =>
        out.res.tag \in {"resolved", "GameEntryNotFound", "NotInstalled"}
  /\ out.op = "findByName" =>
        IF RegExpValid(out.arg)
        THEN out.res.tag \in {"resolved", "GameEntryNotFound"}
        ELSE out.res = Rejected("SyntaxError", out.arg)
  /\ (out.op = "allGames" /\ out.src.top \in {"nodata", "nogames", "ENOENT", "EFAIL"}) =>
        out.res = Resolved(<<>>)
  /\ (out.op = "getGameStorePath" /\ probe = "settled"
        /\ probeEnv \in {"missing", "noapi", "none", "throws"}) => out.res = Resolved(NoPath)

\* C4 witness: an allGames() caller received the empty sequence from a Windows
\* enumeration whose registry access failed with an error other than ENOENT.
C4_Witness ==
  /\ platform = "win32"
  /\ out.op = "allGames" /\ out.src.top = "EFAIL" /\ out.res = Resolved(<<>>)

\* C5 (the claim as stated): on an unsupported platform allGames() yields the
\* empty sequence and getExecInfo fails with the NotInstalled error.
C5_UnsupportedNotInstalled ==
  platform = "linux" =>
    /\ out.op = "allGames" => out.res = Resolved(<<>>)
    /\ out.op = "getExecInfo" => out.res.tag = "NotInstalled"

\* C5 (amended): on an unsupported platform allGames() yields the empty
\* sequence and getExecInfo fails, for every appId, with EntryNotFound carrying
\* the id and the provider identifier: the entry lookup comes first and the
\* empty snapshot matches no id.
C5_UnsupportedEntryNotFound ==
  platform = "linux" =>
    /\ out.op = "allGames" => out.res = Resolved(<<>>)
    /\ out.op = "getExecInfo" => out.res = GameEntryNotFound(<<out.arg>>)

\* C5 witness: getExecInfo has completed on the unsupported platform.
C5_Witness == platform = "linux" /\ out.op = "getExecInfo" /\ out.path = NoPath

ProbeAbsent == probe = "settled" /\ mClientPath = NoPath

\* C6 (the claim as stated): when the probe resolved absent, on any platform,
\* allGames() yields the empty sequence and getGameStorePath() undefined.
C6_AbsentMeansEmpty ==
  ProbeAbsent =>
    /\ out.op = "allGames" => out.res = Resolved(<<>>)
    /\ out.op = "getGameStorePath" => out.res = Resolved(NoPath)

\* C6 (amended): when the probe resolved absent, allGames() succeeds; it
\* yields the empty sequence on win32 and on unsupported platforms, and on
\* darwin the entries the data directory holds (that enumeration does not
\* consult the client path); getGameStorePath() resolves to undefined.
C6_AbsentStillSucceeds ==
  ProbeAbsent =>
    /\ out.op = "allGames" =>
         /\ out.res.tag = "resolved"
         /\ platform # "darwin" => out.res = Resolved(<<>>)
    /\ out.op = "getGameStorePath" => out.res = Resolved(NoPath)

\* C6 witness: on darwin, with no client found, allGames() yielded entries.
C6_Witness ==
  /\ platform = "darwin" /\ ProbeAbsent
  /\ out.op = "allGames" /\ out.res.tag = "resolved" /\ Len(out.snap) > 0

\* C7: getExecInfo never yields a plan without a client path, and never a
\* lower-level error: when the id matches an entry of the snapshot and the
\* client path is unset, it fails with 'GOG Galaxy not installed'.
C7_NotInstalledIsExplicit ==
  out.op = "getExecInfo" =>
    /\ out.res.tag \in {"resolved", "GameEntryNotFound", "NotInstalled"}
    /\ out.path = NoPath => out.res.tag # "resolved"
    /\ (out.path = NoPath /\ HasAppId(out.snap, out.arg)) =>
          out.res = Rejected("NotInstalled", "GOG Galaxy not installed")

\* C7 witness: getExecInfo completed for an id the snapshot holds while the
\* client path was unset.
C7_Witness ==
  out.op = "getExecInfo" /\ out.path = NoPath /\ HasAppId(out.snap, out.arg)

\* C8 (the claim as stated): a macOS enumeration of the listing
\* ['12345', '67890'] with both candidates valid resolves to
\* [entry 12345, entry 67890], whichever candidate's I/O completed first.
C8_ListingOrder ==
  \A k \in {"cur", "old"} :
    (platform = "darwin" /\ enums[k].st = "resolved"
       /\ {enums[k].gameEntries[j] : j \in 1..Len(enums[k].gameEntries)}
            = {MacEntry("full", 1), MacEntry("full", 2)})
    => enums[k].gameEntries = <<MacEntry("full", 1), MacEntry("full", 2)>>

\* C9: a resolved macOS enumeration has processed every listed candidate and
\* holds exactly one entry for each valid candidate (metadata read and parsed,
\* install directory named and on disk) and no other entry; it never rejects;
\* an absent data directory (or games directory) gives the empty sequence.
C9_MacEntriesExact ==
  \A k \in {"cur", "old"} :
    platform = "darwin" =>
      /\ enums[k].st # "rejected"
      /\ enums[k].st = "resolved" =>
           /\ \A i \in 1..enums[k].n : enums[k].cand[i] \in {"valid", "invalid"}
           /\ Len(enums[k].gameEntries) = Cardinality(ValidCands(enums[k]))
           /\ \A i \in ValidCands(enums[k]) :
                \E j \in 1..Len(enums[k].gameEntries) :
                  enums[k].gameEntries[j].gamePath = InstallDir(i)
           /\ enums[k].top \in {"nodata", "nogames"} => enums[k].gameEntries = <<>>

\* C9 witness: of two listed candidates the first was dropped and the second
\* kept.
C9_Witness ==
  /\ platform = "darwin" /\ enums.cur.st = "resolved" /\ enums.cur.n = 2
  /\ enums.cur.cand[1] = "invalid" /\ enums.cur.cand[2] = "valid"
  /\ Len(enums.cur.gameEntries) = 1
  /\ enums.cur.gameEntries[1].gamePath = InstallDir(2)

\* C10 (the claim as stated): no two entries of a snapshot that allGames()
\* returned have the same appid.
C10_UniqueAppIds ==
  out.op = "allGames" =>
    \A a, b \in 1..Len(out.snap) : a # b => out.snap[a].appid # out.snap[b].appid

\* C11: findByAppId returns the first entry of the snapshot, in snapshot
\* order, whose appid is the given id (scalar argument) or one of the given
\* ids (array argument), whatever the order of the ids; it fails with
\* EntryNotFound, carrying the id or the ids joined by ', ' and the provider
\* identifier, exactly when no entry of the snapshot passes that test.
C11_FindByAppIdFirstMatch ==
  out.op = "findByAppId" =>
    LET ids == {out.arg.ids[h] : h \in 1..Len(out.arg.ids)}
        hits == {j \in 1..Len(out.snap) : out.snap[j].appid \in ids}
        query == IF Len(out.arg.ids) = 1 THEN <<out.arg.ids[1]>>
                 ELSE <<out.arg.ids[1], ", ", out.arg.ids[2]>>
    IN IF hits = {}
       THEN out.res = Rejected("GameEntryNotFound", [query |-> query, store |-> "gog"])
       ELSE /\ out.res.tag = "resolved"
            /\ \E j \in hits : out.res.val = out.snap[j] /\ \A h \in hits : j <= h

\* C11 witness: an array argument whose ids are in the opposite order of the
\* two entries of the snapshot; the first entry of the snapshot was returned.
C11_Witness ==
  /\ out.op = "findByAppId" /\ out.arg.isArray
  /\ Len(out.snap) = 2 /\ out.snap[1].appid = out.arg.ids[2]
  /\ out.snap[2].appid = out.arg.ids[1]
  /\ out.res = Resolved(out.snap[1])

\* The whole of name matches one alternative of p.
WholeMatch(p, name) ==
  \E m \in 1..Len(SplitAlt(p)) :
    Len(SplitAlt(p)[m]) = Len(name) /\ MatchAt(SplitAlt(p)[m], name, 1)

\* C12 (the claim as stated): findByName matches the pattern against the
\* whole display name, never a prefix or a substring: it returns the first
\* entry, in snapshot order, the whole of whose name matches the pattern, and
\* fails with EntryNotFound exactly when there is no such entry.
C12_WholeNameMatch ==
  (out.op = "findByName" /\ RegExpValid(out.arg)) =>
    LET hits == {j \in 1..Len(out.snap) : WholeMatch(out.arg, out.snap[j].name)}
    IN IF hits = {}
       THEN out.res = Rejected("GameEntryNotFound", [query |-> out.arg, store |-> "gog"])
       ELSE /\ out.res.tag = "resolved"
            /\ \E j \in hits : out.res.val = out.snap[j] /\ \A h \in hits : j <= h

\* C13: when the id resolves to an entry of the snapshot and a client path was
\* detected, getExecInfo resolves to the plan of the platform.  win32:
\* executable = client path joined with 'GalaxyClient.exe', arguments
\* ['/command=runGame', '/gameId=<id>', 'path="<gamePath>"'].  darwin:
\* executable = the application bundle path itself, arguments
\* ['/gameId=<id>', '/command=runGame', 'path="<gamePath>"'].
C13_ExecPlanByPlatform ==
  (out.op = "getExecInfo" /\ out.path # NoPath /\ HasAppId(out.snap, out.arg)) =>
    \E j \in 1..Len(out.snap) :
      /\ out.snap[j].appid = out.arg
      /\ \A h \in 1..(j - 1) : out.snap[h].appid # out.arg
      /\ out.res.tag = "resolved"
      /\ platform \in {"win32", "darwin"}
      /\ platform = "win32" =>
           /\ out.res.val.execPath = out.path \o <<"GalaxyClient.exe">>
           /\ out.res.val.arguments =
                << <<"/command=runGame">>, <<"/gameId=", out.arg>>,
                   <<"path=\"", out.snap[j].gamePath, "\"">> >>
      /\ platform = "darwin" =>
           /\ out.res.val.execPath = out.path
           /\ out.res.val.arguments =
                << <<"/gameId=", out.arg>>, <<"/command=runGame">>,
                   <<"path=\"", out.snap[j].gamePath, "\"">> >>

\* C13 witness: on darwin a plan was built for an entry of the snapshot with
\* the application bundle found under the user's home directory.
C13_Witness ==
  /\ platform = "darwin" /\ out.op = "getExecInfo" /\ out.path = UserAppsPath
  /\ HasAppId(out.snap, out.arg) /\ out.res.tag = "resolved"

\* C14: identifyGame returns the logical OR of the marker-file check and the
\* fallback's answer, for all four combinations of the two; a warning is
\* logged exactly when the two differ, and then too the result is the OR.
C14_IdentifyGameIsOr ==
  (out.op = "identifyGame" /\ out.arg.fallback \in {"true", "false"}) =>
    /\ out.res.tag = "resolved"
    /\ out.res.val = (out.arg.custom \/ out.arg.fallback = "true")
    /\ out.warned = (out.arg.custom # (out.arg.fallback = "true"))

\* C14 witness: no marker file, the fallback said true: the answer is true
\* and a warning was logged.
C14_Witness ==
  /\ out.op = "identifyGame" /\ ~out.arg.custom /\ out.arg.fallback = "true"
  /\ out.res = Resolved(TRUE) /\ out.warned

\* The operations that only read the adapter's state.
ReadOnlyOps == {"findByName", "findByAppId", "getExecInfo", "getGameStorePath", "identifyGame"}

\* C15: the cached snapshot changes only by cache population and by
\* reloadGames(), and as a whole.  The cache goes from empty to holding a
\* promise only in allGames() or reloadGames(); a resolved cached snapshot is
\* replaced only by reloadGames(); a completing findByName, findByAppId,
\* getExecInfo, getGameStorePath or identifyGame changes neither the cache
\* nor the enumeration behind it; and no caller receives the entries of an
\* enumeration in which a listed candidate has not been processed.
C15_SnapshotWholesale ==
  /\ [](out.op \in Funnelled => out.src.unprocessed = 0)
  /\ [][ /\ (mCache = "undefined" /\ mCache' # "undefined") => (AllGames \/ ReloadGames)
         /\ (mCache = "cur" /\ enums.cur.st = "resolved") =>
              ((mCache' = mCache /\ enums'.cur = enums.cur) \/ ReloadGames)
         /\ (out' # out /\ out'.op \in ReadOnlyOps) =>
              (mCache' = mCache /\ enums'.cur = enums.cur) ]_vars

\* C15 witness: a findByName completed on the existing two-entry snapshot,
\* which is still the cached one.
C15_Witness ==
  /\ out.op = "findByName" /\ out.res.tag = "resolved" /\ epoch.calls >= 2
  /\ Len(out.snap) = 2 /\ mCache = "cur" /\ enums.cur.st = "resolved"
  /\ enums.cur.gameEntries = out.snap

\* The path the probe of this machine detects, and what getGameStorePath
\* reports for it.
DetectedPath ==
  IF platform = "win32" THEN (IF probeEnv = "found" THEN WinClientPath ELSE NoPath)
  ELSE IF platform = "darwin"
  THEN (IF probeEnv \in {"std", "both"} THEN StandardPath
        ELSE IF probeEnv = "user" THEN UserAppsPath ELSE NoPath)
  ELSE NoPath

\* C16: once the probe has settled the client path is fixed: no step changes
\* it (or unsettles the probe), and every getGameStorePath() issued after the
\* probe settled reports the same value, the one the probe detected.
C16_ClientPathFixed ==
  /\ [][probe = "settled" => (probe' = probe /\ mClientPath' = mClientPath)]_vars
  /\ [](probe = "settled" => mClientPath = DetectedPath)
  /\ []((out.op = "getGameStorePath" /\ ~out.early) =>
          out.res = Resolved(IF DetectedPath = NoPath THEN NoPath
                             ELSE IF platform = "darwin" THEN DetectedPath
                             ELSE DetectedPath \o <<"GalaxyClient.exe">>))

\* C16 witness: on win32, after the probe found the client and after a reload
\* and a new population of the cache, getGameStorePath reports the client.
C16_Witness ==
  /\ platform = "win32" /\ probe = "settled" /\ mClientPath = WinClientPath
  /\ epoch.byReload /\ mCache = "cur" /\ enums.cur.st = "resolved"
  /\ out.op = "getGameStorePath" /\ ~out.early
  /\ out.res = Resolved(<<"C:\\GOG Galaxy", "GalaxyClient.exe">>)

\* The probe outcomes that are failures: the registry value cannot be read,
\* the registry module does not load, existsSync throws.
ProbeFailures == {"missing", "noapi", "throws"}

\* C17: constructing the adapter never raises, on any platform and for any
\* outcome of the probe; a failed probe, once settled, has logged
\* 'gog not found' and left the client path absent.
C17_ConstructorNeverRaises ==
  /\ probe \in {"pending", "settled"}
  /\ (probe = "settled" /\ probeEnv \in ProbeFailures) =>
        /\ mClientPath = NoPath
        /\ logged # <<>> /\ logged[1] = "info" /\ logged[2] = "gog not found"

\* C17 witness: on darwin existsSync threw in the constructor; the adapter
\* exists and answered a getGameStorePath() call with undefined.
C17_Witness ==
  /\ platform = "darwin" /\ probeEnv = "throws" /\ probe = "settled"
  /\ logged # <<>> /\ mClientPath = NoPath
  /\ out.op = "getGameStorePath" /\ out.res = Resolved(NoPath)

\* C18: a Windows enumeration started with the client detected never rejects;
\* when the Games key could be opened it holds one entry per subkey whose
\* three values could be read, in subkey order (the entry of the i-th
\* readable subkey carries that subkey's path and startMenu values), and
\* none for the other subkeys; an absent Games key gives the empty sequence.
C18_WindowsEntriesInKeyOrder ==
  \A k \in {"cur", "old"} :
    (platform = "win32" /\ enums[k].st \in {"resolved", "rejected"}
       /\ enums[k].top # "skipped") =>
      /\ enums[k].st = "resolved"
      /\ enums[k].top = "ok" =>
           /\ Len(enums[k].gameEntries) = Cardinality(ValidCands(enums[k]))
           /\ \A i \in ValidCands(enums[k]) :
                LET rank == Cardinality({j \in ValidCands(enums[k]) : j <= i})
                IN /\ enums[k].gameEntries[rank].gamePath = InstallDir(i)
                   /\ enums[k].gameEntries[rank].name = NameOf(i)
                   /\ enums[k].gameEntries[rank].gameStoreId = "gog"
      /\ enums[k].top = "ENOENT" => enums[k].gameEntries = <<>>

\* C18 witness: of two subkeys the first could not be read; the snapshot holds
\* the entry of the second.
C18_Witness ==
  /\ platform = "win32" /\ enums.cur.st = "resolved" /\ enums.cur.top = "ok"
  /\ enums.cur.n = 2 /\ enums.cur.cand[1] = "invalid" /\ enums.cur.cand[2] = "valid"
  /\ Len(enums.cur.gameEntries) = 1
  /\ enums.cur.gameEntries[1].gamePath = InstallDir(2)

\* C19 (the claim as stated): detection takes the first of the system-wide
\* and the user path that exists.  The constructor on darwin leaves the
\* system-wide path when it exists, else the user path when that exists, else
\* no path; findMacOSGOGPath resolves to the system-wide path when it exists,
\* else to the user path when that exists, else rejects with
\* 'GOG Galaxy not found on macOS'.
C19_FirstThatExists ==
  /\ platform = "darwin" =>
        mClientPath = (IF probeEnv \in {"std", "both"} THEN <<"/Applications", "GOG Galaxy.app">>
                       ELSE IF probeEnv = "user"
                       THEN <<"$HOME", "Applications", "GOG Galaxy.app">>
                       ELSE <<>>)
  /\ out.op = "findMacOSGOGPath" =>
        out.res = (IF out.arg.std # "missing"
                   THEN Resolved(<<"/Applications", "GOG Galaxy.app">>)
                   ELSE IF out.arg.user # "missing"
                   THEN Resolved(<<"$HOME", "Applications", "GOG Galaxy.app">>)
                   ELSE Rejected("Error", "GOG Galaxy not found on macOS"))

\* C19 (amended): the constructor takes the first path that exists, as
\* stated; findMacOSGOGPath takes the first path that is a directory: a path
\* that exists but is no directory counts as missing, so the user path is
\* taken, or the call rejects, although the system-wide path exists.
C19_FirstThatIsADirectory ==
  /\ platform = "darwin" =>
        mClientPath = (IF probeEnv \in {"std", "both"} THEN <<"/Applications", "GOG Galaxy.app">>
                       ELSE IF probeEnv = "user"
                       THEN <<"$HOME", "Applications", "GOG Galaxy.app">>
                       ELSE <<>>)
  /\ out.op = "findMacOSGOGPath" =>
        out.res = (IF out.arg.std = "dir"
                   THEN Resolved(<<"/Applications", "GOG Galaxy.app">>)
                   ELSE IF out.arg.user = "dir"
                   THEN Resolved(<<"$HOME", "Applications", "GOG Galaxy.app">>)
                   ELSE Rejected("Error", "GOG Galaxy not found on macOS"))

\* C19 witness: both application bundles are there; the constructor and
\* findMacOSGOGPath both took the system-wide one.
C19_Witness ==
  /\ platform = "darwin" /\ probeEnv = "both" /\ mClientPath = StandardPath
  /\ out.op = "findMacOSGOGPath" /\ out.arg.std = "dir" /\ out.arg.user = "dir"
  /\ out.res = Resolved(StandardPath)

\* C20: launchGame calls api.runExecutable only when getExecInfo succeeded,
\* then exactly once (given the caller passed an api), with the plan's
\* executable and arguments, cwd = the directory of the executable,
\* shell = true and suggestDeploy = true; when getExecInfo fails with
\* EntryNotFound or NotInstalled, runExecutable is not called and launchGame
\* fails with that error.
C20_LaunchRunsThePlanOnce ==
  out.op = "launchGame" =>
    /\ ~HasAppId(out.snap, out.arg.appId) =>
         /\ out.run = <<>>
         /\ out.res = Rejected("GameEntryNotFound",
                               [query |-> <<out.arg.appId>>, store |-> "gog"])
    /\ (HasAppId(out.snap, out.arg.appId) /\ out.path = NoPath) =>
         /\ out.run = <<>>
         /\ out.res = Rejected("NotInstalled", "GOG Galaxy not installed")
    /\ (HasAppId(out.snap, out.arg.appId) /\ out.path # NoPath
          /\ out.arg.outcome # "noapi") =>
         /\ Len(out.run) = 1
         /\ out.run[1].shell /\ out.run[1].suggestDeploy
         /\ out.run[1].execPath = (IF platform = "darwin" THEN out.path
                                   ELSE out.path \o <<"GalaxyClient.exe">>)
         /\ out.run[1].cwd = (IF platform = "darwin"
                              THEN SubSeq(out.path, 1, Len(out.path) - 1)
                              ELSE out.path)
         /\ \E j \in 1..Len(out.snap) :
              /\ out.snap[j].appid = out.arg.appId
              /\ \A h \in 1..(j - 1) : out.snap[h].appid # out.arg.appId
              /\ out.run[1].arguments =
                   (IF platform = "darwin"
                    THEN << <<"/gameId=", out.arg.appId>>, <<"/command=runGame">>,
                            <<"path=\"", out.snap[j].gamePath, "\"">> >>
                    ELSE << <<"/command=runGame">>, <<"/gameId=", out.arg.appId>>,
                            <<"path=\"", out.snap[j].gamePath, "\"">> >>)

\* C20 witness: on win32 a launch of an entry of the snapshot called
\* runExecutable once, in the client's directory, and resolved.
C20_Witness ==
  /\ platform = "win32" /\ out.op = "launchGame" /\ out.arg.outcome = "ok"
  /\ HasAppId(out.snap, out.arg.appId) /\ out.res.tag = "resolved"
  /\ Len(out.run) = 1 /\ out.run[1].cwd = WinClientPath

\* C21: a reload is not undone by an older enumeration.  After a
\* reloadGames() the cache holds the promise of the enumeration the latest
\* reload started, whatever the enumerations it replaced do later; a step of
\* a replaced enumeration (its progress, its completion, the delivery of its
\* result) changes neither the cache nor the enumeration behind it; an
\* allGames() call made after the reload receives the result of the latest
\* reload's enumeration, and a caller whose promise dates from before the
\* reload receives the result of the older one.
C21_ReloadNotUndone ==
  /\ [](epoch.byReload => (mCache = "cur" /\ ~enums.cur.stale))
  /\ []((out.op = "allGames" /\ out.fresh /\ epoch.byReload) => ~out.src.stale)
  /\ []((out.op = "allGames" /\ ~out.fresh) => out.src.stale)
  /\ [](waiter.p = "old" =>
          (enums.old.stale /\ ~waiter.fresh /\ enums.old.st # "running"))
  /\ [][ (enums.old.st # "none" /\ enums'.old # enums.old
            /\ ~ReloadGames /\ ~AllGames) =>
           (mCache' = mCache /\ enums'.cur = enums.cur) ]_vars

\* C21 witness: reloadGames() was called while an enumeration was in flight;
\* the new enumeration finished first and a caller that called allGames()
\* after the reload has its non-empty result, the older one still running.
C21_Witness ==
  /\ epoch.byReload /\ enums.old.st = "running" /\ enums.old.stale
  /\ out.op = "allGames" /\ out.fresh /\ ~out.src.stale
  /\ out.res.tag = "resolved" /\ Len(out.snap) > 0 /\ out.snap = enums.cur.gameEntries

\* C22: in getExecInfo the entry lookup comes before the client-path check.
\* An id that matches no entry of the snapshot fails with EntryNotFound,
\* carrying the id and the provider identifier, with the client path present
\* and with it absent alike; the 'not installed' error occurs only for an id
\* that matches an entry.
C22_LookupBeforePathCheck ==
  out.op = "getExecInfo" =>
    /\ ~HasAppId(out.snap, out.arg) =>
         out.res = Rejected("GameEntryNotFound", [query |-> <<out.arg>>, store |-> "gog"])
    /\ out.res.tag = "NotInstalled" => (HasAppId(out.snap, out.arg) /\ out.path = NoPath)
    /\ out.res.tag = "GameEntryNotFound" => ~HasAppId(out.snap, out.arg)

\* C22 witness: no client path, a snapshot with one entry, and an id that is
\* not in it: the failure is EntryNotFound.
C22_Witness ==
  /\ out.op = "getExecInfo" /\ out.path = NoPath
  /\ Len(out.snap) = 1 /\ ~HasAppId(out.snap, out.arg)
  /\ out.res.tag = "GameEntryNotFound"

\* C23: on win32 an enumeration started while the client path is unset (the
\* probe reported absent or has not assigned it yet) does not touch the
\* registry and resolves to the empty sequence at once; that empty snapshot
\* stays cached, and is what every later allGames() receives, until
\* reloadGames() is called, also after the probe has set a client path.
C23_UnsetPathShortCircuits ==
  /\ [](\A k \in {"cur", "old"} :
          (platform = "win32" /\ enums[k].top = "skipped") =>
            (enums[k].st = "resolved" /\ enums[k].gameEntries = <<>> /\ enums[k].n = 0))
  /\ []((platform = "win32" /\ out.op = "allGames" /\ out.src.top = "skipped") =>
          out.res = Resolved(<<>>))
  /\ [][ /\ (platform = "win32" /\ mClientPath = NoPath
               /\ ((mCache = "undefined" /\ AllGames) \/ ReloadGames)) =>
              enums'.cur.top = "skipped"
         /\ (platform = "win32" /\ mCache = "cur" /\ enums.cur.top = "skipped"
               /\ ~ReloadGames) =>
              (mCache' = mCache /\ enums'.cur = enums.cur) ]_vars

\* C23 witness: the cache was populated before the probe set the client
\* path; an allGames() call issued after the probe found the client still
\* received the empty snapshot that never read the registry.
C23_Witness ==
  /\ platform = "win32" /\ probe = "settled" /\ mClientPath = WinClientPath
  /\ out.op = "allGames" /\ ~out.early /\ out.fresh
  /\ out.src.top = "skipped" /\ out.res = Resolved(<<>>)
  /\ mCache = "cur" /\ enums.cur.top = "skipped"

====
